---- MODULE Spec2Model ----
(***************************************************************************)
(* tx-fs: transactions over a base directory.  The model keeps the base    *)
(* directory, each transaction's staging tree, snapshot tree, in-memory    *)
(* journal and journal file, the lockfiles, and the position of run() for  *)
(* each transaction.  File contents are strings; a tree maps every path of *)
(* a small universe to a node (absent, directory or file with content).    *)
(***************************************************************************)
EXTENDS Integers, Sequences, FiniteSets, TLC

\* ---------------------------------------------------------------- bounds
\* Handle operations one scope may call.
MaxOps == 3
\* Longest file content (appendFile concatenates).
MaxLen == 2

\* ---------------------------------------------------------------- paths
ROOT == "."
FilePaths == {"a.txt", "b.txt", "d/c.txt"}
DirPaths == {"d"}
Paths == FilePaths \cup DirPaths
LockRes == Paths \cup {ROOT}
TxIds == {1, 2, 3}
NoTx == 0

\* path.dirname relative to the base directory
Parent(p) == IF p = "d/c.txt" THEN "d" ELSE ROOT
\* p and everything below it
Under(p) == {q \in Paths : q = p \/ Parent(q) = p}
\* p and the directories above it, below the base directory
UpTo(p) == IF p = ROOT THEN {} ELSE {p} \cup (IF Parent(p) = ROOT THEN {} ELSE {Parent(p)})
\* path.extname(resourcePath) !== ''
HasExt(p) == p \in FilePaths

\* ---------------------------------------------------------------- the path guard
\* A caller path: what it starts with ("" for a relative path, "/" rooted, "//" UNC,
\* "C:/" drive letter) and its segments
UserPath(lead, segs) == [lead |-> lead, segs |-> segs]

\* the base directory as an absolute path
BaseAbs == <<"home", "base">>

\* segments joined by the separator
RECURSIVE JoinPath(_)
JoinPath(segs) ==
    IF Len(segs) = 0 THEN ""
    ELSE IF Len(segs) = 1 THEN segs[1]
    ELSE segs[1] \o "/" \o JoinPath(Tail(segs))

\* the caller path as the caller wrote it
Str(up) == up.lead \o JoinPath(up.segs)

\* path.resolve(baseDir, userPath) for a relative userPath: "." stays, ".." goes up, a name goes down
RECURSIVE Resolve(_, _, _)
Resolve(abs, segs, i) ==
    IF i > Len(segs) THEN abs
    ELSE LET g == segs[i]
         IN  Resolve(IF g = "." THEN abs
                     ELSE IF g = ".." THEN (IF Len(abs) = 0 THEN abs ELSE SubSeq(abs, 1, Len(abs) - 1))
                     ELSE Append(abs, g),
                     segs, i + 1)

\* how many leading segments two absolute paths share
RECURSIVE CommonLen(_, _, _)
CommonLen(a, b, k) ==
    IF k < Len(a) /\ k < Len(b) /\ a[k + 1] = b[k + 1] THEN CommonLen(a, b, k + 1) ELSE k

\* path.relative(from, to)
Relative(from, to) ==
    LET k == CommonLen(from, to, 0)
    IN  [i \in 1..(Len(from) - k) |-> ".."] \o SubSeq(to, k + 1, Len(to))

PathError(up) == "Path \"" \o Str(up) \o "\" is outside of the transaction's base directory."

\* resolveAndVerifyPath: the error, or the path relative to the base directory
resolveAndVerifyPath(up) ==
    LET isAbsolutePath == up.lead \in {"/", "//"}
        isUncPath == up.lead = "//"
        isWindowsDrivePath == up.lead = "C:/"
        relativePath == Relative(BaseAbs, Resolve(BaseAbs, up.segs, 1))
        isOutside == Len(relativePath) > 0 /\ relativePath[1] = ".."
    IN  IF isAbsolutePath \/ isUncPath \/ isWindowsDrivePath THEN [err |-> PathError(up), path |-> ""]
        ELSE IF isOutside THEN [err |-> PathError(up), path |-> ""]
        ELSE [err |-> "", path |-> IF Len(relativePath) = 0 THEN ROOT ELSE JoinPath(relativePath)]

\* ---------------------------------------------------------------- trees
Absent == [k |-> "none", c |-> ""]
Dir == [k |-> "dir", c |-> ""]
File(c) == [k |-> "file", c |-> c]
EmptyTree == [p \in Paths |-> Absent]

\* fs.stat / fs.access succeed
Exists(tr, p) == p = ROOT \/ tr[p].k # "none"
\* fs.mkdir(p, {recursive: true})
MkdirP(tr, p) == [q \in Paths |-> IF q \in UpTo(p) /\ tr[q].k = "none" THEN Dir ELSE tr[q]]
\* fs.rm(p, {recursive: true, force: true})
RmRf(tr, p) == [q \in Paths |-> IF q \in Under(p) THEN Absent ELSE tr[q]]
\* fs.writeFile(p, c)
PutFile(tr, p, c) == [tr EXCEPT ![p] = File(c)]
\* fs.cp(src/p, dst/p, {recursive: true}): files of src replace those of dst, others stay
CpTree(src, dst, p) == [q \in Paths |-> IF q \in Under(p) /\ src[q].k # "none" THEN src[q] ELSE dst[q]]

\* ---------------------------------------------------------------- journal
WriteRec(p) == [op |-> "WRITE", path |-> p, from |-> "", to |-> ""]
RmRec(p) == [op |-> "RM", path |-> p, from |-> "", to |-> ""]
MkdirRec(p) == [op |-> "MKDIR", path |-> p, from |-> "", to |-> ""]
RenameRec(f, t) == [op |-> "RENAME", path |-> "", from |-> f, to |-> t]
CpRec(f, t) == [op |-> "CP", path |-> "", from |-> f, to |-> t]

NewJournal == [status |-> "IN_PROGRESS", operations |-> <<>>, snapshots |-> <<>>]
NoFile == [status |-> "NONE", operations |-> <<>>, snapshots |-> <<>>]

\* a journal file whose content JSON.parse rejects
CorruptFile == [status |-> "CORRUPT", operations |-> <<>>, snapshots |-> <<>>]

Has(ops, r) == \E i \in 1..Len(ops) : ops[i] = r
\* operations.findIndex(...) === -1 ? push : nothing
PrependOnce(ops, r) == IF Has(ops, r) THEN ops ELSE <<r>> \o ops

AppendOnce(ops, r) == IF Has(ops, r) THEN ops ELSE Append(ops, r)


\* ---------------------------------------------------------------- one transaction's view
\* A view v gathers what an operation of transaction t reads and writes:
\*   base  the base directory              lk  holder of each lockfile
\*   sd    staging/<id>/ exists            st  staging tree       sn  staging/<id>/_snapshots tree
\*   jr    txState.journal (in memory)     jf  journal/<id>.json
\*   al    txState.acquiredLocks           tr  txState.temporaryResources
Ok(v) == [v |-> v, err |-> "", ret |-> ""]
Ret(v, r) == [v |-> v, err |-> "", ret |-> r]
Fail(v, e) == [v |-> v, err |-> e, ret |-> ""]

\* journalManager.write(txState.journal)
JWrite(v) == [v EXCEPT !.jf = v.jr]

\* The placeholder acquireLock creates for a resource that does not exist
Placeholder(base, res) ==
    IF HasExt(res) THEN PutFile(MkdirP(base, Parent(res)), res, "") ELSE MkdirP(base, res)

\* options.timeout in ms, scaled down from the default of 10000
LockTimeout == 200
\* retries.minTimeout = retries.maxTimeout, factor 1: the wait between two attempts in ms
RetryInterval == 100
\* retries: Math.max(1, Math.floor(options.timeout / 100))
Retries == IF LockTimeout \div RetryInterval >= 1 THEN LockTimeout \div RetryInterval ELSE 1

\* the error thrown when the retries ran out: it carries the resource path and the timeout
LockError(res) == "Failed to acquire lock on \"" \o res \o "\" within " \o ToString(LockTimeout) \o "ms."

\* no acquisition made yet
NotAcquiring == [res |-> "", tries |-> 0]

\* acquireLock that takes the lockfile whoever holds it
AcquireLockAlways(v, t, res) ==
    LET there == Exists(v.base, res)
    IN  Ok([v EXCEPT !.base = IF there THEN @ ELSE Placeholder(@, res), !.lk[res] = t, !.al = @ \cup {res},
                     !.tr = IF there THEN @ ELSE @ \cup {res}])

\* acquireLock: the lockfile is free and taken, or the retries run out (ELOCKED)
AcquireLock(v, t, res) ==
    LET there == Exists(v.base, res)
        made == IF there THEN v.base ELSE Placeholder(v.base, res)
    IN  IF v.lk[res] = NoTx
        THEN Ok([v EXCEPT !.base = made, !.lk[res] = t, !.al = @ \cup {res},
                          !.tr = IF there THEN @ ELSE @ \cup {res}])
        ELSE Fail([v EXCEPT !.base = IF there THEN @ ELSE RmRf(made, res)], LockError(res))

\* if (!txState.acquiredLocks.has(p)) { acquire; add }
Lock(v, t, res) == IF res \in v.al THEN Ok(v) ELSE AcquireLock(v, t, res)

\* exists(): journal first, then staging, then the base directory
TxExistsStagingFirst(v, p) ==
    Exists(v.st, p) \/ Exists(v.base, p)

TxExists(v, p) ==
    LET ops == v.jr.operations
        any(P(_)) == \E i \in 1..Len(ops) : P(ops[i])
        isRm(o) == o.op = "RM" /\ o.path = p
        isFrom(o) == o.op = "RENAME" /\ o.from = p
        isTo(o) == o.op = "RENAME" /\ o.to = p
        isWrite(o) == o.op = "WRITE" /\ o.path = p
        isCp(o) == o.op = "CP" /\ o.to = p
    IN  IF any(isRm) THEN FALSE
        ELSE IF any(isFrom) THEN FALSE
        ELSE IF any(isTo) THEN TRUE
        ELSE IF any(isWrite) THEN TRUE
        ELSE IF any(isCp) THEN TRUE
        ELSE IF Exists(v.st, p) THEN TRUE
        ELSE Exists(v.base, p)

exists(v, t, p) == Ret(v, IF TxExists(v, p) THEN "true" ELSE "false")

writeFile(v, t, p, data) ==
    LET lockPath == IF Exists(v.base, p) THEN p ELSE Parent(p)
        r == Lock(v, t, lockPath)
        w == r.v
    IN  IF r.err # "" THEN r
        ELSE Ok(JWrite([w EXCEPT !.st = PutFile(MkdirP(w.st, Parent(p)), p, data),
                                 !.jr.operations = AppendOnce(@, WriteRec(p))]))

\* readFile without its lock
readFileUnlocked(v, t, p) ==
    IF Exists(v.st, p) THEN Ret(v, v.st[p].c)
    ELSE IF Exists(v.base, p) THEN Ret(v, v.base[p].c)
    ELSE Fail(v, "ENOENT")

readFileBaseFirst(v, t, p) ==
    LET r == Lock(v, t, p)
        w == r.v
    IN  IF r.err # "" THEN r
        ELSE IF Exists(v.base, p) THEN Ret(w, w.base[p].c)
        ELSE IF Exists(w.st, p) THEN Ret(w, w.st[p].c)
        ELSE Fail(w, "ENOENT")

readFile(v, t, p) ==
    LET r == Lock(v, t, p)
        w == r.v
    IN  IF r.err # "" THEN r
        ELSE IF Exists(w.st, p) THEN Ret(w, w.st[p].c)
        ELSE IF Exists(w.base, p) THEN Ret(w, w.base[p].c)
        ELSE Fail(w, "ENOENT")

\* what appendFile reads before it concatenates
CurrentData(v, p) ==
    IF Exists(v.st, p) THEN v.st[p].c ELSE IF Exists(v.base, p) THEN v.base[p].c ELSE ""

appendFile(v, t, p, data) ==
    LET r == Lock(v, t, p)
        w == r.v
    IN  IF r.err # "" THEN r
        ELSE Ok(JWrite([w EXCEPT !.st = PutFile(MkdirP(w.st, Parent(p)), p, CurrentData(w, p) \o data),
                                 !.jr.operations = AppendOnce(@, WriteRec(p))]))

rm(v, t, p) ==
    LET r == Lock(v, t, Parent(p))
        w == r.v
    IN  IF r.err # "" THEN r
        ELSE Ok(JWrite([w EXCEPT !.jr.operations = AppendOnce(@, RmRec(p))]))

mkdir(v, t, p, recursive) ==
    LET r == Lock(v, t, Parent(p))
        w == r.v
        w1 == [w EXCEPT !.st = MkdirP(@, Parent(p))]
    IN  IF r.err # "" THEN r
        ELSE IF Exists(w1.st, p) /\ ~recursive THEN Fail(w1, "EEXIST")
        ELSE Ok(JWrite([w1 EXCEPT !.st = MkdirP(@, p),
                                  !.jr.operations = AppendOnce(@, MkdirRec(p))]))

\* the snapshot rename and cp take of an existing target: fs.cp of the ORIGINAL file
Snapshot(v, p) ==
    IF ~Exists(v.base, p) THEN Fail(v, "ENOENT")
    ELSE Ok([v EXCEPT !.sn = CpTree(v.base, MkdirP(@, Parent(p)), p),
                      !.jr.snapshots = AppendOnce(@, p)])

\* copy the source (its staged form if there is one) to staging under the new name, and journal rec
StageFromBase(v, from, to, rec) ==
    IF ~Exists(v.base, from) THEN Fail(v, "ENOENT")
    ELSE Ok(JWrite([v EXCEPT !.st = PutFile(MkdirP(@, Parent(to)), to, v.base[from].c),
                             !.jr.operations = Append(@, rec)]))

Stage(v, from, to, rec) ==
    LET src == IF Exists(v.st, from) THEN v.st ELSE v.base
    IN  IF ~Exists(src, from) THEN Fail(v, "ENOENT")
        ELSE Ok(JWrite([v EXCEPT !.st = PutFile(MkdirP(@, Parent(to)), to, src[from].c),
                                 !.jr.operations = Append(@, rec)]))

\* [oldParentDir, newParentDir].sort(): the base directory sorts before its subdirectories
SortedLocks(a, b) == IF a = b THEN <<a>> ELSE IF a = ROOT THEN <<a, b>> ELSE IF b = ROOT THEN <<b, a>> ELSE <<a, b>>

rename(v, t, old, new) ==
    LET targets == SortedLocks(Parent(old), Parent(new))
        r1 == Lock(v, t, targets[1])
        r2 == IF r1.err # "" \/ Len(targets) = 1 THEN r1 ELSE Lock(r1.v, t, targets[2])
        w == r2.v
        r3 == IF TxExists(w, new) THEN Snapshot(w, new) ELSE Ok(w)
    IN  IF r2.err # "" THEN r2
        ELSE IF ~TxExists(w, old) THEN Fail(w, "SOURCE_MISSING")
        ELSE IF r3.err # "" THEN r3
        ELSE Stage(r3.v, old, new, RenameRec(old, new))

cpUnchecked(v, t, src, dst) ==
    LET r1 == Lock(v, t, src)
        r2 == IF r1.err # "" THEN r1 ELSE Lock(r1.v, t, Parent(dst))
    IN  IF r2.err # "" THEN r2 ELSE Stage(r2.v, src, dst, CpRec(src, dst))

cp(v, t, src, dst) ==
    LET r1 == Lock(v, t, src)
        r2 == IF r1.err # "" THEN r1 ELSE Lock(r1.v, t, Parent(dst))
        w == r2.v
        r3 == IF TxExists(w, dst) THEN Snapshot(w, dst) ELSE Ok(w)
    IN  IF ~TxExists(v, src) THEN Fail(v, "SOURCE_MISSING")
        ELSE IF r2.err # "" THEN r2
        ELSE IF r3.err # "" THEN r3
        ELSE Stage(r3.v, src, dst, CpRec(src, dst))

snapshotDir(v, t, p) ==
    LET r == Lock(v, t, p)
        w == r.v
    IN  IF ~Exists(v.base, p) THEN Fail(v, "DIR_MISSING")
        ELSE IF r.err # "" THEN r
        ELSE Ok(JWrite([w EXCEPT !.sn = CpTree(w.base, MkdirP(@, Parent(p)), p),
                                 !.jr.snapshots = AppendOnce(@, p)]))

\* ---------------------------------------------------------------- the handle
\* A call of the handle: the operation, its path arguments and its data or option
Call(name, p, q, x) == [name |-> name, p |-> p, q |-> q, x |-> x]

\* createTxHandle: each method of the handle is the operation bound to the transaction
Apply(v, t, c) ==
    CASE c.name = "write" -> writeFile(v, t, c.p, c.x)
      [] c.name = "read" -> readFile(v, t, c.p)
      [] c.name = "append" -> appendFile(v, t, c.p, c.x)
      [] c.name = "rm" -> rm(v, t, c.p)
      [] c.name = "mkdir" -> mkdir(v, t, c.p, c.x = "recursive")
      [] c.name = "exists" -> exists(v, t, c.p)
      [] c.name = "rename" -> rename(v, t, c.p, c.q)
      [] c.name = "cp" -> cp(v, t, c.p, c.q)
      [] c.name = "snapshotDir" -> snapshotDir(v, t, c.p)

\* what the scope has read so far: readFile's results, and whether each came from staging
Reads(rd, st, c, r) ==
    IF c.name = "read" /\ r.err = ""
    THEN Append(rd, [path |-> c.p, data |-> r.ret, own |-> Exists(st, c.p)])
    ELSE rd

\* the file contents of a tree
Contents(tr) == {<<p, tr[p].c>> : p \in {q \in FilePaths : tr[q].k = "file"}}

\* ---------------------------------------------------------------- commit-execute and recovery, step by step
\* fs.rename(staging/p, base/q) after fs.mkdir(dirname, {recursive: true})
MoveIn(b, st, p) == [base |-> [MkdirP(b, Parent(p)) EXCEPT ![p] = st[p]], st |-> [st EXCEPT ![p] = Absent]]

\* One step of commitTransaction's loop.  A RENAME entry takes two steps: ExecOp moves the
\* staged target into place, ExecRenameRm removes the original.  err is the thrown error.
ExecOp(b, st, o) ==
    CASE o.op = "WRITE" ->
            IF ~Exists(st, o.path) THEN [base |-> b, st |-> st, err |-> "STAGING_MISSING"]
            ELSE MoveIn(b, st, o.path) @@ [err |-> ""]
      [] o.op = "RM" -> [base |-> RmRf(b, o.path), st |-> st, err |-> ""]
      [] o.op = "MKDIR" -> [base |-> MkdirP(b, o.path), st |-> st, err |-> ""]
      [] o.op = "RENAME" ->
            IF ~Exists(st, o.to) THEN [base |-> b, st |-> st, err |-> "STAGING_MISSING"]
            ELSE MoveIn(b, st, o.to) @@ [err |-> ""]
      [] o.op = "CP" ->
            IF ~Exists(st, o.to) THEN [base |-> b, st |-> st, err |-> "STAGING_MISSING"]
            ELSE [base |-> [MkdirP(b, Parent(o.to)) EXCEPT ![o.to] = st[o.to]], st |-> st, err |-> ""]

\* fs.rm(finalFromPath, {recursive: true, force: true})
ExecRenameRm(b, o) == RmRf(b, o.from)

\* The whole loop of commitTransaction from entry i on: what a complete commit produces
RECURSIVE ExecAll(_, _, _, _)
ExecAll(b, st, ops, i) ==
    IF i > Len(ops) THEN [base |-> b, st |-> st, err |-> ""]
    ELSE LET r == ExecOp(b, st, ops[i])
         IN  IF r.err # "" THEN r
             ELSE ExecAll(IF ops[i].op = "RENAME" THEN ExecRenameRm(r.base, ops[i]) ELSE r.base,
                          r.st, ops, i + 1)

\* One entry of rollForwardPreparedTransaction's loop
ReplayOp(b, st, o) ==
    CASE o.op = "WRITE" ->
            IF Exists(st, o.path) THEN MoveIn(b, st, o.path) ELSE [base |-> b, st |-> st]
      [] o.op = "RM" -> [base |-> RmRf(b, o.path), st |-> st]
      [] o.op = "MKDIR" -> [base |-> MkdirP(b, o.path), st |-> st]
      [] o.op = "RENAME" ->
            IF Exists(b, o.from)
            THEN [base |-> [MkdirP(b, Parent(o.to)) EXCEPT ![o.to] = b[o.from], ![o.from] = Absent], st |-> st]
            ELSE [base |-> b, st |-> st]
      [] o.op = "CP" ->
            IF Exists(b, o.from)
            THEN [base |-> [MkdirP(b, Parent(o.to)) EXCEPT ![o.to] = b[o.from]], st |-> st]
            ELSE [base |-> b, st |-> st]

RECURSIVE rollForwardPreparedTransaction(_, _, _, _)
rollForwardPreparedTransaction(b, st, ops, i) ==
    IF i > Len(ops) THEN b
    ELSE LET r == ReplayOp(b, st, ops[i])
         IN  rollForwardPreparedTransaction(r.base, r.st, ops, i + 1)

\* restoreSnapshots: every recorded snapshot that is still there is copied back, in key order
RECURSIVE restoreSnapshots(_, _, _, _)
restoreSnapshots(b, sn, rels, i) ==
    IF i > Len(rels) THEN b
    ELSE restoreSnapshots(IF Exists(sn, rels[i]) THEN CpTree(sn, MkdirP(b, Parent(rels[i])), rels[i]) ELSE b,
                          sn, rels, i + 1)

\* a rollback that leaves the temporary resources where they are
RemoveNone(b, ps) == b

\* the loop of rollbackTransaction over txState.temporaryResources
RECURSIVE RemoveAll(_, _)
RemoveAll(b, ps) ==
    IF ps = {} THEN b ELSE LET p == CHOOSE q \in ps : TRUE IN RemoveAll(RmRf(b, p), ps \ {p})

\* ---------------------------------------------------------------- state
VARIABLES
    base,                \* the base directory outside the metadata root
    lockfile,            \* locks/<hash>.lock: the transaction holding each resource
    sd,                  \* staging/<id>/ exists
    staging,             \* staging/<id>/<relative path>
    snaps,               \* staging/<id>/_snapshots/<relative path>
    journal,             \* txState.journal
    jfile,               \* journal/<id>.json
    acquiredLocks,       \* txState.acquiredLocks
    temporaryResources,  \* txState.temporaryResources
    pc,                  \* where run() stands for each transaction
    ci,                  \* index of the journal entry commit-execute is at
    nops,                \* handle operations the scope has called
    reads,               \* what readFile returned, in call order
    scopeRaised,         \* the scope threw
    rolledBack,          \* rollbackTransaction was called
    execFailed,          \* a step of commit-execute threw
    before,              \* the base directory when the transaction began
    after,               \* what a complete commit-execute produces, taken at PREPARED
    recording,           \* the calls of the scopes are being recorded
    prog,                \* the handle operations the scope has called, in call order (when recording)
    initial,             \* the base directory before any transaction began
    legit,               \* the file contents that were there initially or that a commit applied
    phase,               \* up | crashed | recovering | recovered
    todo,                \* journal ids recover() has still to visit
    acquiring,           \* the lock acquisition each transaction made last: resource and retries used
    raised,              \* the error run() has caught and will throw again ("" when none)
    thrown               \* the error run() has thrown to its caller ("" when none)

vars == <<base, lockfile, sd, staging, snaps, journal, jfile, acquiredLocks, temporaryResources,
          pc, ci, nops, reads, scopeRaised, rolledBack, execFailed, before, after, recording, prog,
          initial, legit, phase, todo, acquiring, raised, thrown>>

txvars == <<sd, staging, snaps, journal, jfile, acquiredLocks, temporaryResources>>
ghost == <<before, after, recording, prog, initial, legit>>

View(t) == [base |-> base, lk |-> lockfile, sd |-> sd[t], st |-> staging[t], sn |-> snaps[t],
            jr |-> journal[t], jf |-> jfile[t], al |-> acquiredLocks[t], tr |-> temporaryResources[t]]

\* write a view back
Store(t, v) ==
    /\ base' = v.base
    /\ lockfile' = v.lk
    /\ sd' = [sd EXCEPT ![t] = v.sd]
    /\ staging' = [staging EXCEPT ![t] = v.st]
    /\ snaps' = [snaps EXCEPT ![t] = v.sn]
    /\ journal' = [journal EXCEPT ![t] = v.jr]
    /\ jfile' = [jfile EXCEPT ![t] = v.jf]
    /\ acquiredLocks' = [acquiredLocks EXCEPT ![t] = v.al]
    /\ temporaryResources' = [temporaryResources EXCEPT ![t] = v.tr]

\* The base directories a run starts from: a.txt and b.txt may be there, d may be there with or without c.txt
InitBases(files) ==
    {b \in [Paths -> {Absent, Dir, File("a"), File("b"), File("c")}] :
        /\ b["a.txt"] \in {Absent, File("a")}
        /\ b["b.txt"] \in (IF "b.txt" \in files THEN {Absent, File("b")} ELSE {Absent})
        /\ b["d"] \in (IF "d/c.txt" \in files THEN {Absent, Dir} ELSE {Absent})
        /\ b["d/c.txt"] \in (IF b["d"] = Dir THEN {Absent, File("c")} ELSE {Absent})}

InitWith(files, rec) ==
    /\ base \in InitBases(files)
    /\ recording = rec
    /\ lockfile = [r \in LockRes |-> NoTx]
    /\ sd = [t \in TxIds |-> FALSE]
    /\ staging = [t \in TxIds |-> EmptyTree]
    /\ snaps = [t \in TxIds |-> EmptyTree]
    /\ journal = [t \in TxIds |-> NewJournal]
    /\ jfile = [t \in TxIds |-> NoFile]
    /\ acquiredLocks = [t \in TxIds |-> {}]
    /\ temporaryResources = [t \in TxIds |-> {}]
    /\ pc = [t \in TxIds |-> "idle"]
    /\ ci = [t \in TxIds |-> 0]
    /\ nops = [t \in TxIds |-> 0]
    /\ reads = [t \in TxIds |-> <<>>]
    /\ scopeRaised = [t \in TxIds |-> FALSE]
    /\ rolledBack = [t \in TxIds |-> FALSE]
    /\ execFailed = [t \in TxIds |-> FALSE]
    /\ before = [t \in TxIds |-> base]
    /\ after = [t \in TxIds |-> [ok |-> FALSE, base |-> base]]
    /\ prog = [t \in TxIds |-> <<>>]
    /\ initial = base
    /\ legit = Contents(base)
    /\ phase = "up"
    /\ todo = {}
    /\ acquiring = [t \in TxIds |-> NotAcquiring]
    /\ raised = [t \in TxIds |-> ""]
    /\ thrown = [t \in TxIds |-> ""]

\* ---------------------------------------------------------------- run(): begin and the scope
\* beginTransaction: the staging directory and the IN_PROGRESS journal
Begin(t) ==
    /\ phase = "up" /\ pc[t] = "idle"
    /\ sd' = [sd EXCEPT ![t] = TRUE]
    /\ journal' = [journal EXCEPT ![t] = NewJournal]
    /\ jfile' = [jfile EXCEPT ![t] = NewJournal]
    /\ pc' = [pc EXCEPT ![t] = "scope"]
    /\ before' = [before EXCEPT ![t] = base]
    /\ UNCHANGED <<acquiring, raised, thrown, base, lockfile, staging, snaps, acquiredLocks, temporaryResources, ci, nops, reads,
                   scopeRaised, rolledBack, execFailed, after, recording, prog, initial, legit, phase, todo>>

\* The handle operation c returned r: the scope goes on, or the error leaves the scope
Called(t, c, r) ==
    /\ Store(t, r.v)
    /\ nops' = [nops EXCEPT ![t] = @ + 1]
    /\ pc' = [pc EXCEPT ![t] = IF r.err = "" THEN "scope" ELSE "rollback"]
    /\ scopeRaised' = [scopeRaised EXCEPT ![t] = r.err # ""]
    /\ raised' = [raised EXCEPT ![t] = r.err]
    /\ reads' = [reads EXCEPT ![t] = Reads(@, staging[t], c, r)]
    /\ prog' = [prog EXCEPT ![t] = IF recording THEN Append(@, c) ELSE @]
    /\ UNCHANGED <<acquiring, thrown, ci, rolledBack, execFailed, before, after, recording, initial, legit, phase, todo>>

InScope(t) == phase = "up" /\ pc[t] = "scope" /\ nops[t] < MaxOps

WriteFile(t, files, data) ==
    InScope(t) /\ \E p \in files, x \in data : Called(t, Call("write", p, "", x), writeFile(View(t), t, p, x))

\* The scope writes back what it last read plus one; the value of a file is counted by the
\* length of its content, so plus one is one more character
WriteBack(t, files) ==
    /\ InScope(t)
    /\ Len(reads[t]) > 0
    /\ LET last == reads[t][Len(reads[t])]
       IN  /\ last.path \in files
           /\ Called(t, Call("write", last.path, "", last.data \o "1"),
                     writeFile(View(t), t, last.path, last.data \o "1"))

ReadFile(t, files) ==
    InScope(t) /\ \E p \in files : Called(t, Call("read", p, "", ""), readFile(View(t), t, p))

AppendFile(t, files, data) ==
    /\ InScope(t)
    /\ \E p \in files, x \in data :
          /\ Len(CurrentData(View(t), p)) + Len(x) <= MaxLen
          /\ Called(t, Call("append", p, "", x), appendFile(View(t), t, p, x))

Rm(t, paths) ==
    InScope(t) /\ \E p \in paths : Called(t, Call("rm", p, "", ""), rm(View(t), t, p))

Mkdir(t, dirs) ==
    InScope(t) /\ \E p \in dirs, recursive \in {"", "recursive"} :
        Called(t, Call("mkdir", p, "", recursive), mkdir(View(t), t, p, recursive = "recursive"))

ExistsCall(t, paths) ==
    InScope(t) /\ \E p \in paths : Called(t, Call("exists", p, "", ""), exists(View(t), t, p))

Rename(t, files) ==
    InScope(t) /\ \E old \in files, new \in files :
        old # new /\ Called(t, Call("rename", old, new, ""), rename(View(t), t, old, new))

Cp(t, files) ==
    InScope(t) /\ \E src \in files, dst \in files :
        src # dst /\ Called(t, Call("cp", src, dst, ""), cp(View(t), t, src, dst))

SnapshotDir(t, dirs) ==
    InScope(t) /\ \E p \in dirs : Called(t, Call("snapshotDir", p, "", ""), snapshotDir(View(t), t, p))

\* ---------------------------------------------------------------- handle operations on caller paths
\* the first statement of every operation: resolveAndVerifyPath throws, or the operation goes on
\* with the resolved path
Verified(up) == resolveAndVerifyPath(up).err = ""
Resolved(up) == resolveAndVerifyPath(up).path

\* an operation that takes the lock on the base directory before it verifies its path
RejectedAfterLock(t, name, up) ==
    InScope(t) /\ Called(t, Call(name, Str(up), "", ""), Fail(Lock(View(t), t, ROOT).v, PathError(up)))

Rejected(t, name, up) ==
    InScope(t) /\ Called(t, Call(name, Str(up), "", ""), Fail(View(t), PathError(up)))

UserWrite(t, ups, data) ==
    \E up \in ups :
        IF ~Verified(up) THEN Rejected(t, "write", up)
        ELSE Resolved(up) \in FilePaths /\ WriteFile(t, {Resolved(up)}, data)

UserRead(t, ups) ==
    \E up \in ups :
        IF ~Verified(up) THEN Rejected(t, "read", up)
        ELSE Resolved(up) \in FilePaths /\ ReadFile(t, {Resolved(up)})

UserAppend(t, ups, data) ==
    \E up \in ups :
        IF ~Verified(up) THEN Rejected(t, "append", up)
        ELSE Resolved(up) \in FilePaths /\ AppendFile(t, {Resolved(up)}, data)

UserRm(t, ups) ==
    \E up \in ups :
        IF ~Verified(up) THEN Rejected(t, "rm", up)
        ELSE Resolved(up) \in Paths /\ Rm(t, {Resolved(up)})

UserMkdir(t, ups) ==
    \E up \in ups :
        IF ~Verified(up) THEN Rejected(t, "mkdir", up)
        ELSE Resolved(up) \in DirPaths /\ Mkdir(t, {Resolved(up)})

UserExists(t, ups) ==
    \E up \in ups :
        IF ~Verified(up) THEN Rejected(t, "exists", up)
        ELSE Resolved(up) \in Paths /\ ExistsCall(t, {Resolved(up)})

UserSnapshotDir(t, ups) ==
    \E up \in ups :
        IF ~Verified(up) THEN Rejected(t, "snapshotDir", up)
        ELSE Resolved(up) \in DirPaths /\ SnapshotDir(t, {Resolved(up)})

\* rename and cp verify both paths, the first one first
UserRename(t, ups) ==
    \E old \in ups, new \in ups :
        IF ~Verified(old) THEN Rejected(t, "rename", old)
        ELSE IF ~Verified(new) THEN Rejected(t, "rename", new)
        ELSE /\ Resolved(old) \in FilePaths /\ Resolved(new) \in FilePaths /\ Resolved(old) # Resolved(new)
             /\ InScope(t)
             /\ Called(t, Call("rename", Resolved(old), Resolved(new), ""),
                       rename(View(t), t, Resolved(old), Resolved(new)))

UserCp(t, ups) ==
    \E src \in ups, dst \in ups :
        IF ~Verified(src) THEN Rejected(t, "cp", src)
        ELSE IF ~Verified(dst) THEN Rejected(t, "cp", dst)
        ELSE /\ Resolved(src) \in FilePaths /\ Resolved(dst) \in FilePaths /\ Resolved(src) # Resolved(dst)
             /\ InScope(t)
             /\ Called(t, Call("cp", Resolved(src), Resolved(dst), ""),
                       cp(View(t), t, Resolved(src), Resolved(dst)))

\* readFile of a file that is there and whose lock the transaction does not hold yet:
\* acquireLock calls lockfile.lock, whose attempts are steps of their own
ReadStart(t, files) ==
    /\ InScope(t)
    /\ \E p \in files :
          /\ p \notin acquiredLocks[t]
          /\ Exists(base, p)
          /\ acquiring' = [acquiring EXCEPT ![t] = [res |-> p, tries |-> 0]]
    /\ pc' = [pc EXCEPT ![t] = "locking"]
    /\ UNCHANGED <<base, lockfile, txvars, ci, nops, reads, scopeRaised, rolledBack, execFailed, ghost, phase,
                   todo, raised, thrown>>

\* an attempt that finds the lockfile held with retries left: wait RetryInterval and try again
LockRetryForever(t) ==
    /\ phase = "up" /\ pc[t] = "locking"
    /\ lockfile[acquiring[t].res] # NoTx
    /\ UNCHANGED vars

LockRetry(t) ==
    /\ phase = "up" /\ pc[t] = "locking"
    /\ lockfile[acquiring[t].res] # NoTx
    /\ acquiring[t].tries < Retries
    /\ acquiring' = [acquiring EXCEPT ![t].tries = @ + 1]
    /\ UNCHANGED <<base, lockfile, txvars, pc, ci, nops, reads, scopeRaised, rolledBack, execFailed, ghost,
                   phase, todo, raised, thrown>>

\* the attempt that ends lockfile.lock: the lockfile is free and taken and readFile goes on,
\* or no retry is left and acquireLock throws
LockAttempt(t) ==
    /\ phase = "up" /\ pc[t] = "locking"
    /\ lockfile[acquiring[t].res] = NoTx \/ acquiring[t].tries >= Retries
    /\ Called(t, Call("read", acquiring[t].res, "", ""), readFile(View(t), t, acquiring[t].res))

\* the scope returns: run() goes on to commitTransaction
ScopeReturn(t) ==
    /\ phase = "up" /\ pc[t] = "scope"
    /\ pc' = [pc EXCEPT ![t] = "prepare"]
    /\ UNCHANGED <<acquiring, raised, thrown, base, lockfile, txvars, ci, nops, reads, scopeRaised, rolledBack, execFailed, ghost, phase, todo>>

\* the scope throws an exception of its own: run() goes on to rollbackTransaction
ScopeThrow(t) ==
    /\ phase = "up" /\ pc[t] = "scope"
    /\ pc' = [pc EXCEPT ![t] = "rollback"]
    /\ scopeRaised' = [scopeRaised EXCEPT ![t] = TRUE]
    /\ raised' = [raised EXCEPT ![t] = "scope error"]
    /\ UNCHANGED <<acquiring, thrown, base, lockfile, txvars, ci, nops, reads, rolledBack, execFailed, ghost, phase, todo>>

\* ---------------------------------------------------------------- commitTransaction
\* Phase 1: status PREPARED, written with sync
Prepare(t) ==
    /\ phase = "up" /\ pc[t] = "prepare"
    /\ journal' = [journal EXCEPT ![t].status = "PREPARED"]
    /\ jfile' = [jfile EXCEPT ![t] = journal'[t]]
    /\ ci' = [ci EXCEPT ![t] = 1]
    /\ pc' = [pc EXCEPT ![t] = IF Len(journal[t].operations) = 0 THEN "cl_release" ELSE "execute"]
    /\ after' = [after EXCEPT ![t] =
                   LET r == ExecAll(base, staging[t], journal[t].operations, 1)
                   IN  [ok |-> r.err = "", base |-> r.base]]
    /\ UNCHANGED <<acquiring, raised, thrown, base, lockfile, sd, staging, snaps, acquiredLocks, temporaryResources, nops, reads,
                   scopeRaised, rolledBack, execFailed, before, recording, prog, initial, legit, phase, todo>>

\* where the loop stands after entry ci is done
Advance(t) == IF ci[t] = Len(journal[t].operations) THEN "cl_release" ELSE "execute"

\* Phase 2, one journal entry: applied, or it throws, and the catch of run() calls rollbackTransaction
ExecStep(t) ==
    /\ phase = "up" /\ pc[t] = "execute"
    /\ LET o == journal[t].operations[ci[t]]
           r == ExecOp(base, staging[t], o)
       IN  IF r.err # ""
           THEN /\ execFailed' = [execFailed EXCEPT ![t] = TRUE]
                /\ raised' = [raised EXCEPT ![t] = r.err]
                /\ pc' = [pc EXCEPT ![t] = "rollback"]
                /\ UNCHANGED <<base, staging, ci>>
           ELSE /\ base' = r.base
                /\ staging' = [staging EXCEPT ![t] = r.st]
                /\ pc' = [pc EXCEPT ![t] = IF o.op = "RENAME" THEN "rename_rm" ELSE Advance(t)]
                /\ ci' = [ci EXCEPT ![t] = IF o.op = "RENAME" THEN @ ELSE @ + 1]
                /\ UNCHANGED <<execFailed, raised>>
    /\ legit' = legit \cup Contents(base')
    /\ UNCHANGED <<acquiring, thrown, lockfile, sd, snaps, journal, jfile, acquiredLocks, temporaryResources, nops, reads,
                   scopeRaised, rolledBack, before, after, recording, prog, initial, phase, todo>>

\* the second half of a RENAME entry: the original is removed
ExecRenameRmStep(t) ==
    /\ phase = "up" /\ pc[t] = "rename_rm"
    /\ base' = ExecRenameRm(base, journal[t].operations[ci[t]])
    /\ pc' = [pc EXCEPT ![t] = Advance(t)]
    /\ ci' = [ci EXCEPT ![t] = @ + 1]
    /\ UNCHANGED <<acquiring, raised, thrown, lockfile, txvars, nops, reads, scopeRaised, rolledBack, execFailed, ghost, phase, todo>>

\* ---------------------------------------------------------------- rollbackTransaction
\* what releaseAll leaves of the lockfiles
Released(t) == [r \in LockRes |-> IF r \in acquiredLocks[t] /\ lockfile[r] = t THEN NoTx ELSE lockfile[r]]

\* a rollback that releases the locks before it restores the snapshots
RollbackReleasing(t) ==
    /\ phase = "up" /\ pc[t] = "rollback"
    /\ lockfile' = Released(t)
    /\ base' = RemoveAll(restoreSnapshots(base, snaps[t], journal[t].snapshots, 1), temporaryResources[t])
    /\ rolledBack' = [rolledBack EXCEPT ![t] = TRUE]
    /\ pc' = [pc EXCEPT ![t] = "cl_release"]
    /\ UNCHANGED <<acquiring, raised, thrown, txvars, ci, nops, reads, scopeRaised, execFailed, ghost, phase, todo>>

\* restoreSnapshots, then the temporary resources are removed; cleanup follows
Rollback(t) ==
    /\ phase = "up" /\ pc[t] = "rollback"
    /\ base' = RemoveAll(restoreSnapshots(base, snaps[t], journal[t].snapshots, 1), temporaryResources[t])
    /\ rolledBack' = [rolledBack EXCEPT ![t] = TRUE]
    /\ pc' = [pc EXCEPT ![t] = "cl_release"]
    /\ UNCHANGED <<acquiring, raised, thrown, lockfile, txvars, ci, nops, reads, scopeRaised, execFailed, ghost, phase, todo>>

\* ---------------------------------------------------------------- cleanup
\* 1. lockManager.releaseAll(txState.acquiredLocks)
CleanupRelease(t) ==
    /\ phase = "up" /\ pc[t] = "cl_release"
    /\ lockfile' = Released(t)
    /\ pc' = [pc EXCEPT ![t] = "cl_staging"]
    /\ UNCHANGED <<acquiring, raised, thrown, base, txvars, ci, nops, reads, scopeRaised, rolledBack, execFailed, ghost, phase, todo>>

\* 2. fs.rm(txState.stagingDir)
CleanupStaging(t) ==
    /\ phase = "up" /\ pc[t] = "cl_staging"
    /\ sd' = [sd EXCEPT ![t] = FALSE]
    /\ staging' = [staging EXCEPT ![t] = EmptyTree]
    /\ snaps' = [snaps EXCEPT ![t] = EmptyTree]
    /\ pc' = [pc EXCEPT ![t] = IF rolledBack[t] THEN "cl_delete" ELSE "cl_mark"]
    /\ UNCHANGED <<acquiring, raised, thrown, base, lockfile, journal, jfile, acquiredLocks, temporaryResources, ci, nops, reads,
                   scopeRaised, rolledBack, execFailed, ghost, phase, todo>>

\* 3. on commit the journal is written once more, as COMMITTED
CleanupMark(t) ==
    /\ phase = "up" /\ pc[t] = "cl_mark"
    /\ journal' = [journal EXCEPT ![t].status = "COMMITTED"]
    /\ jfile' = [jfile EXCEPT ![t] = journal'[t]]
    /\ pc' = [pc EXCEPT ![t] = "cl_delete"]
    /\ UNCHANGED <<acquiring, raised, thrown, base, lockfile, sd, staging, snaps, acquiredLocks, temporaryResources, ci, nops, reads,
                   scopeRaised, rolledBack, execFailed, ghost, phase, todo>>

\* 4. journalManager.delete; run() returns the scope's result or throws
CleanupDelete(t) ==
    /\ phase = "up" /\ pc[t] = "cl_delete"
    /\ jfile' = [jfile EXCEPT ![t] = NoFile]
    /\ pc' = [pc EXCEPT ![t] = "done"]
    /\ thrown' = [thrown EXCEPT ![t] = raised[t]]
    /\ UNCHANGED <<acquiring, raised, base, lockfile, sd, staging, snaps, journal, acquiredLocks, temporaryResources, ci, nops,
                   reads, scopeRaised, rolledBack, execFailed, ghost, phase, todo>>

\* ---------------------------------------------------------------- rollback whose steps fail
\* a snapshot tree without the snapshots whose copy back throws
Without(sn, failed) == [q \in Paths |-> IF \E p \in failed : q \in Under(p) THEN Absent ELSE sn[q]]

\* Array.from of a journal's snapshot paths
Range(rels) == {rels[i] : i \in 1..Len(rels)}

\* rollbackTransaction where the restore of some snapshots or the removal of some temporary
\* resources throws: each is caught where it happens and the loop goes on
RollbackFailing(t) ==
    /\ phase = "up" /\ pc[t] = "rollback"
    /\ \E failed \in SUBSET Range(journal[t].snapshots), kept \in SUBSET temporaryResources[t] :
          /\ failed \cup kept # {}
          /\ base' = RemoveAll(restoreSnapshots(base, Without(snaps[t], failed), journal[t].snapshots, 1),
                               temporaryResources[t] \ kept)
    /\ rolledBack' = [rolledBack EXCEPT ![t] = TRUE]
    /\ pc' = [pc EXCEPT ![t] = "cl_release"]
    /\ UNCHANGED <<acquiring, raised, thrown, lockfile, txvars, ci, nops, reads, scopeRaised, execFailed, ghost,
                   phase, todo>>

\* 1. release() of some locks throws: it is caught and logged, the lockfile stays
CleanupReleaseFailing(t) ==
    /\ phase = "up" /\ pc[t] = "cl_release" /\ rolledBack[t]
    /\ \E stuck \in SUBSET acquiredLocks[t] :
          /\ stuck # {}
          /\ lockfile' = [r \in LockRes |-> IF r \in stuck THEN lockfile[r] ELSE Released(t)[r]]
    /\ pc' = [pc EXCEPT ![t] = "cl_staging"]
    /\ UNCHANGED <<acquiring, raised, thrown, base, txvars, ci, nops, reads, scopeRaised, rolledBack, execFailed,
                   ghost, phase, todo>>

\* 2. fs.rm(txState.stagingDir) throws: nothing catches it before the caller of run()
CleanupStagingFailing(t) ==
    /\ phase = "up" /\ pc[t] = "cl_staging" /\ rolledBack[t]
    /\ thrown' = [thrown EXCEPT ![t] = "EBUSY"]
    /\ pc' = [pc EXCEPT ![t] = "done"]
    /\ UNCHANGED <<acquiring, raised, base, lockfile, txvars, ci, nops, reads, scopeRaised, rolledBack,
                   execFailed, ghost, phase, todo>>

\* 4. journalManager.delete fails: it is caught and logged, the journal file stays
CleanupDeleteFailing(t) ==
    /\ phase = "up" /\ pc[t] = "cl_delete" /\ rolledBack[t]
    /\ pc' = [pc EXCEPT ![t] = "done"]
    /\ thrown' = [thrown EXCEPT ![t] = raised[t]]
    /\ UNCHANGED <<acquiring, raised, base, lockfile, txvars, ci, nops, reads, scopeRaised, rolledBack,
                   execFailed, ghost, phase, todo>>

\* ---------------------------------------------------------------- crash and initialize()
\* The process dies: what was in memory is gone, the disk stays as it is
Crash ==
    /\ phase = "up"
    /\ \E t \in TxIds : pc[t] \notin {"idle", "done"}
    /\ phase' = "crashed"
    /\ pc' = [t \in TxIds |-> IF pc[t] \in {"idle", "done"} THEN pc[t] ELSE "dead"]
    /\ journal' = [t \in TxIds |-> NewJournal]
    /\ acquiredLocks' = [t \in TxIds |-> {}]
    /\ temporaryResources' = [t \in TxIds |-> {}]
    /\ acquiring' = [t \in TxIds |-> NotAcquiring]
    /\ raised' = [t \in TxIds |-> ""]
    /\ thrown' = [t \in TxIds |-> ""]
    /\ UNCHANGED <<base, lockfile, sd, staging, snaps, jfile, ci, nops, reads, scopeRaised, rolledBack,
                   execFailed, ghost, todo>>

\* The process dies while journalManager.write is writing the journal of t: fs.writeFile and
\* open(path, 'w') truncate the file first, so what is left does not parse
CrashTorn(t) ==
    /\ phase = "up"
    /\ pc[t] \in {"scope", "prepare", "cl_mark"}
    /\ jfile' = [jfile EXCEPT ![t] = CorruptFile]
    /\ phase' = "crashed"
    /\ pc' = [u \in TxIds |-> IF pc[u] \in {"idle", "done"} THEN pc[u] ELSE "dead"]
    /\ journal' = [u \in TxIds |-> NewJournal]
    /\ acquiredLocks' = [u \in TxIds |-> {}]
    /\ temporaryResources' = [u \in TxIds |-> {}]
    /\ acquiring' = [u \in TxIds |-> NotAcquiring]
    /\ raised' = [u \in TxIds |-> ""]
    /\ thrown' = [u \in TxIds |-> ""]
    /\ UNCHANGED <<base, lockfile, sd, staging, snaps, ci, nops, reads, scopeRaised, rolledBack,
                   execFailed, ghost, todo>>

\* initialize() of the next process: recover() lists the journal ids
Initialize ==
    /\ phase = "crashed"
    /\ phase' = "recovering"
    /\ todo' = {t \in TxIds : jfile[t].status # "NONE"}
    /\ UNCHANGED <<acquiring, raised, thrown, base, lockfile, txvars, pc, ci, nops, reads, scopeRaised, rolledBack, execFailed, ghost>>

\* a discard that deletes the journal and leaves the staging directory
DiscardJournalOnly(t) ==
    /\ jfile' = [jfile EXCEPT ![t] = NoFile]
    /\ todo' = todo \ {t}
    /\ UNCHANGED <<acquiring, raised, thrown, lockfile, sd, staging, snaps, journal, acquiredLocks,
                   temporaryResources, pc, ci, nops, reads, scopeRaised, rolledBack, execFailed, ghost, phase>>

\* cleanupCompletedTransaction / rollbackIncompleteTransaction: staging and journal go
Discard(t) ==
    /\ sd' = [sd EXCEPT ![t] = FALSE]
    /\ staging' = [staging EXCEPT ![t] = EmptyTree]
    /\ snaps' = [snaps EXCEPT ![t] = EmptyTree]
    /\ jfile' = [jfile EXCEPT ![t] = NoFile]
    /\ todo' = todo \ {t}
    /\ UNCHANGED <<acquiring, raised, thrown, lockfile, journal, acquiredLocks, temporaryResources, pc, ci, nops, reads, scopeRaised,
                   rolledBack, execFailed, ghost, phase>>

RecoverInProgress(t) ==
    /\ phase = "recovering" /\ t \in todo /\ jfile[t].status = "IN_PROGRESS"
    /\ Discard(t)
    /\ UNCHANGED base

RecoverPrepared(t) ==
    /\ phase = "recovering" /\ t \in todo /\ jfile[t].status = "PREPARED"
    /\ base' = rollForwardPreparedTransaction(base, staging[t], jfile[t].operations, 1)
    /\ Discard(t)

RecoverCompleted(t) ==
    /\ phase = "recovering" /\ t \in todo /\ jfile[t].status \in {"COMMITTED", "ROLLED_BACK"}
    /\ Discard(t)
    /\ UNCHANGED base

\* journalManager.read returns null for a file that does not parse: recover() goes on to the
\* next id
RecoverCorrupt(t) ==
    /\ phase = "recovering" /\ t \in todo /\ jfile[t].status = "CORRUPT"
    /\ todo' = todo \ {t}
    /\ UNCHANGED <<acquiring, raised, thrown, base, lockfile, txvars, pc, ci, nops, reads, scopeRaised,
                   rolledBack, execFailed, ghost, phase>>

\* journalManager.read throws an error that is neither ENOENT nor a SyntaxError: the catch
\* around the loop of recover() logs it and recover() returns
RecoverReadError(t) ==
    /\ phase = "recovering" /\ t \in todo
    /\ todo' = {}
    /\ UNCHANGED <<acquiring, raised, thrown, base, lockfile, txvars, pc, ci, nops, reads, scopeRaised,
                   rolledBack, execFailed, ghost, phase>>

RecoverDone ==
    /\ phase = "recovering" /\ todo = {}
    /\ phase' = "recovered"
    /\ UNCHANGED <<acquiring, raised, thrown, base, lockfile, txvars, pc, ci, nops, reads, scopeRaised, rolledBack, execFailed, ghost, todo>>

\* ---------------------------------------------------------------- a second manager on the same base directory
\* initialize() of another manager instance while this one is running: its recover() lists the
\* journal ids that are on disk
OtherInitialize ==
    /\ phase = "up" /\ todo = {}
    /\ \E t \in TxIds : jfile[t].status # "NONE"
    /\ todo' = {t \in TxIds : jfile[t].status # "NONE"}
    /\ UNCHANGED <<acquiring, raised, thrown, base, lockfile, txvars, pc, ci, nops, reads, scopeRaised, rolledBack, execFailed, ghost, phase>>

OtherRecoverInProgress(t) ==
    /\ phase = "up" /\ t \in todo /\ jfile[t].status = "IN_PROGRESS"
    /\ Discard(t)
    /\ UNCHANGED base

OtherRecoverPrepared(t) ==
    /\ phase = "up" /\ t \in todo /\ jfile[t].status = "PREPARED"
    /\ base' = rollForwardPreparedTransaction(base, staging[t], jfile[t].operations, 1)
    /\ Discard(t)

OtherRecoverCompleted(t) ==
    /\ phase = "up" /\ t \in todo /\ jfile[t].status \in {"COMMITTED", "ROLLED_BACK"}
    /\ Discard(t)
    /\ UNCHANGED base

\* the journal was deleted after it was listed: journalManager.read returns null
OtherRecoverGone(t) ==
    /\ phase = "up" /\ t \in todo /\ jfile[t].status = "NONE"
    /\ todo' = todo \ {t}
    /\ UNCHANGED <<acquiring, raised, thrown, base, lockfile, txvars, pc, ci, nops, reads, scopeRaised,
                   rolledBack, execFailed, ghost, phase>>

\* ---------------------------------------------------------------- specifications
\* One transaction with every handle operation, and a crash at any step followed by recovery
SpecFiles == {"a.txt", "d/c.txt"}
SpecData == {"x"}

Init == InitWith(SpecFiles, FALSE)

Next ==
    \/ Begin(1)
    \/ WriteFile(1, SpecFiles, SpecData)
    \/ ReadFile(1, SpecFiles)
    \/ AppendFile(1, SpecFiles, SpecData)
    \/ Rm(1, SpecFiles \cup DirPaths)
    \/ Mkdir(1, DirPaths)
    \/ ExistsCall(1, SpecFiles \cup DirPaths)
    \/ Rename(1, SpecFiles)
    \/ Cp(1, SpecFiles)
    \/ SnapshotDir(1, DirPaths)
    \/ ScopeReturn(1)
    \/ ScopeThrow(1)
    \/ Prepare(1)
    \/ ExecStep(1)
    \/ ExecRenameRmStep(1)
    \/ Rollback(1)
    \/ CleanupRelease(1)
    \/ CleanupStaging(1)
    \/ CleanupMark(1)
    \/ CleanupDelete(1)
    \/ Crash
    \/ Initialize
    \/ RecoverInProgress(1)
    \/ RecoverPrepared(1)
    \/ RecoverCompleted(1)
    \/ RecoverDone

Spec == Init /\ [][Next]_vars

\* Two transactions on the same manager, their operations and commit steps interleaved
MaxConcOps == 2
ConcFiles == {"a.txt"}
ConcData(t) == IF t = 1 THEN {"x"} ELSE {"y"}

InitConc == InitWith(ConcFiles, TRUE)

NextConc ==
    \/ Begin(1)
    \/ Begin(2)
    \/ nops[1] < MaxConcOps /\ WriteFile(1, ConcFiles, ConcData(1))
    \/ nops[2] < MaxConcOps /\ WriteFile(2, ConcFiles, ConcData(2))
    \/ nops[1] < MaxConcOps /\ ReadFile(1, ConcFiles)
    \/ nops[2] < MaxConcOps /\ ReadFile(2, ConcFiles)
    \/ nops[1] < MaxConcOps /\ AppendFile(1, ConcFiles, ConcData(1))
    \/ nops[2] < MaxConcOps /\ AppendFile(2, ConcFiles, ConcData(2))
    \/ nops[1] < MaxConcOps /\ Rm(1, ConcFiles)
    \/ nops[2] < MaxConcOps /\ Rm(2, ConcFiles)
    \/ ScopeReturn(1)
    \/ ScopeReturn(2)
    \/ Prepare(1)
    \/ Prepare(2)
    \/ ExecStep(1)
    \/ ExecStep(2)
    \/ Rollback(1)
    \/ Rollback(2)
    \/ CleanupRelease(1)
    \/ CleanupRelease(2)
    \/ CleanupStaging(1)
    \/ CleanupStaging(2)
    \/ CleanupMark(1)
    \/ CleanupMark(2)
    \/ CleanupDelete(1)
    \/ CleanupDelete(2)

SpecConc == InitConc /\ [][NextConc]_vars

\* Three transactions that each read the same existing file and write back what they read plus one
CounterFiles == {"a.txt"}

InitCounter == InitWith(CounterFiles, TRUE) /\ base["a.txt"] = File("a")

NextCounter ==
    \E t \in TxIds :
        \/ Begin(t)
        \/ nops[t] < MaxConcOps /\ ReadFile(t, CounterFiles)
        \/ nops[t] < MaxConcOps /\ WriteBack(t, CounterFiles)
        \/ ScopeReturn(t)
        \/ Prepare(t)
        \/ ExecStep(t)
        \/ Rollback(t)
        \/ CleanupRelease(t)
        \/ CleanupStaging(t)
        \/ CleanupMark(t)
        \/ CleanupDelete(t)

SpecCounter == InitCounter /\ [][NextCounter]_vars

\* Two transactions that lock two existing files in any order, the attempts of lockfile.lock
\* taken one by one; the retry timer of a pending acquisition always fires in the end
LockTxs == {1, 2}
LockFiles == {"a.txt", "b.txt"}

InitLock == InitWith(LockFiles, FALSE) /\ \A p \in LockFiles : Exists(base, p)

NextLock ==
    \E t \in LockTxs :
        \/ Begin(t)
        \/ ReadStart(t, LockFiles)
        \/ LockRetry(t)
        \/ LockAttempt(t)
        \/ ScopeReturn(t)
        \/ Prepare(t)
        \/ Rollback(t)
        \/ CleanupRelease(t)
        \/ CleanupStaging(t)
        \/ CleanupMark(t)
        \/ CleanupDelete(t)

\* One transaction whose scope throws, and a rollback any step of which may fail
FaultyFiles == {"a.txt", "d/c.txt"}

InitFaulty == InitWith(FaultyFiles, FALSE)

NextFaulty ==
    \/ Begin(1)
    \/ WriteFile(1, FaultyFiles, SpecData)
    \/ ReadFile(1, FaultyFiles)
    \/ SnapshotDir(1, DirPaths)
    \/ ScopeThrow(1)
    \/ Rollback(1)
    \/ RollbackFailing(1)
    \/ CleanupRelease(1)
    \/ CleanupReleaseFailing(1)
    \/ CleanupStaging(1)
    \/ CleanupStagingFailing(1)
    \/ CleanupDelete(1)
    \/ CleanupDeleteFailing(1)

SpecFaulty == InitFaulty /\ [][NextFaulty]_vars

\* Two transactions writing files, the process dying at any step, also in the middle of a
\* journal write, and a recovery in which reading a journal may fail
RecTxs == {1, 2}
RecFiles == {"a.txt", "b.txt"}
MaxRecOps == 1

InitRec == InitWith(RecFiles, FALSE)

NextRec ==
    \/ \E t \in RecTxs :
          \/ Begin(t)
          \/ nops[t] < MaxRecOps /\ WriteFile(t, RecFiles, SpecData)
          \/ ScopeReturn(t)
          \/ Prepare(t)
          \/ ExecStep(t)
          \/ Rollback(t)
          \/ CleanupRelease(t)
          \/ CleanupStaging(t)
          \/ CleanupMark(t)
          \/ CleanupDelete(t)
          \/ CrashTorn(t)
          \/ RecoverInProgress(t)
          \/ RecoverPrepared(t)
          \/ RecoverCompleted(t)
          \/ RecoverCorrupt(t)
          \/ RecoverReadError(t)
    \/ Crash
    \/ Initialize
    \/ RecoverDone

SpecRec == InitRec /\ [][NextRec]_vars

\* One transaction whose scope passes caller paths of every form to the handle operations
CallerPaths ==
    { UserPath("", <<"a.txt">>), UserPath("", <<"d", "c.txt">>), UserPath("", <<"d">>),
      UserPath("", <<".", "a.txt">>), UserPath("", <<"d", "..", "a.txt">>),
      UserPath("", <<"..", "base", "a.txt">>),
      UserPath("", <<"..", "a.txt">>), UserPath("", <<"d", "..", "..", "a.txt">>),
      UserPath("", <<"..", "..", "home", "other", "a.txt">>),
      UserPath("/", <<"home", "base", "a.txt">>), UserPath("//", <<"srv", "a.txt">>),
      UserPath("C:/", <<"a.txt">>) }

InitPath == InitWith(SpecFiles, TRUE)

NextPath ==
    \/ Begin(1)
    \/ nops[1] < MaxConcOps /\ UserWrite(1, CallerPaths, SpecData)
    \/ nops[1] < MaxConcOps /\ UserRead(1, CallerPaths)
    \/ nops[1] < MaxConcOps /\ UserAppend(1, CallerPaths, SpecData)
    \/ nops[1] < MaxConcOps /\ UserRm(1, CallerPaths)
    \/ nops[1] < MaxConcOps /\ UserMkdir(1, CallerPaths)
    \/ nops[1] < MaxConcOps /\ UserExists(1, CallerPaths)
    \/ nops[1] < MaxConcOps /\ UserSnapshotDir(1, CallerPaths)
    \/ nops[1] < MaxConcOps /\ UserRename(1, CallerPaths)
    \/ nops[1] < MaxConcOps /\ UserCp(1, CallerPaths)
    \/ ScopeReturn(1)
    \/ Prepare(1)
    \/ ExecStep(1)
    \/ ExecRenameRmStep(1)
    \/ Rollback(1)
    \/ CleanupRelease(1)
    \/ CleanupStaging(1)
    \/ CleanupMark(1)
    \/ CleanupDelete(1)

SpecPath == InitPath /\ [][NextPath]_vars

\* One transaction whose calls are recorded, up to commit or rollback
OrderData == {"x", "y"}

InitOrder == InitWith(SpecFiles, TRUE)

NextOrder ==
    \/ Begin(1)
    \/ WriteFile(1, SpecFiles, OrderData)
    \/ AppendFile(1, SpecFiles, OrderData)
    \/ Rm(1, SpecFiles \cup DirPaths)
    \/ Rename(1, SpecFiles)
    \/ Cp(1, SpecFiles)
    \/ ScopeReturn(1)
    \/ Prepare(1)
    \/ ExecStep(1)
    \/ ExecRenameRmStep(1)
    \/ Rollback(1)
    \/ CleanupRelease(1)
    \/ CleanupStaging(1)
    \/ CleanupMark(1)
    \/ CleanupDelete(1)

SpecOrder == InitOrder /\ [][NextOrder]_vars

\* Transaction 1 copies and renames while transaction 2 reads and writes the same files
InitCopy == InitWith(SpecFiles, TRUE)

NextCopy ==
    \/ Begin(1)
    \/ Begin(2)
    \/ nops[1] < MaxConcOps /\ Cp(1, SpecFiles)
    \/ nops[1] < MaxConcOps /\ Rename(1, SpecFiles)
    \/ nops[2] < MaxConcOps /\ ReadFile(2, SpecFiles)
    \/ nops[2] < MaxConcOps /\ WriteFile(2, SpecFiles, SpecData)
    \/ ScopeThrow(1)
    \/ ScopeReturn(1)
    \/ ScopeReturn(2)
    \/ Prepare(1)
    \/ Prepare(2)
    \/ ExecStep(1)
    \/ ExecStep(2)
    \/ ExecRenameRmStep(1)
    \/ Rollback(1)
    \/ Rollback(2)
    \/ CleanupRelease(1)
    \/ CleanupRelease(2)
    \/ CleanupStaging(1)
    \/ CleanupStaging(2)
    \/ CleanupMark(1)
    \/ CleanupMark(2)
    \/ CleanupDelete(1)
    \/ CleanupDelete(2)

SpecCopy == InitCopy /\ [][NextCopy]_vars

\* One transaction that writes, while other manager instances are initialized on the same base directory
InitShared == InitWith(SpecFiles, FALSE)

NextShared ==
    \/ Begin(1)
    \/ nops[1] < MaxConcOps /\ WriteFile(1, SpecFiles, SpecData)
    \/ ScopeReturn(1)
    \/ ScopeThrow(1)
    \/ Prepare(1)
    \/ ExecStep(1)
    \/ Rollback(1)
    \/ CleanupRelease(1)
    \/ CleanupStaging(1)
    \/ CleanupMark(1)
    \/ CleanupDelete(1)
    \/ OtherInitialize
    \/ OtherRecoverInProgress(1)
    \/ OtherRecoverPrepared(1)
    \/ OtherRecoverCompleted(1)
    \/ OtherRecoverGone(1)

SpecShared == InitShared /\ [][NextShared]_vars

SpecLock ==
    /\ InitLock
    /\ [][NextLock]_vars
    /\ \A t \in LockTxs : WF_vars(LockRetry(t) \/ LockAttempt(t))

\* ---------------------------------------------------------------- run() as one piece
\* what a transaction sees when nothing else runs: every lockfile free, its own staging empty
FreshView(b) ==
    [base |-> b, lk |-> [r \in LockRes |-> NoTx], sd |-> TRUE, st |-> EmptyTree, sn |-> EmptyTree,
     jr |-> NewJournal, jf |-> NewJournal, al |-> {}, tr |-> {}]

\* the scope calls the handle operations in order; the first error leaves the scope
RECURSIVE RunScope(_, _, _, _, _)
RunScope(v, t, calls, i, rd) ==
    IF i > Len(calls) THEN [v |-> v, err |-> "", reads |-> rd]
    ELSE LET r == Apply(v, t, calls[i])
         IN  IF r.err # "" THEN [v |-> r.v, err |-> r.err, reads |-> rd]
             ELSE RunScope(r.v, t, calls, i + 1, Reads(rd, v.st, calls[i], r))

\* run() from begin to end with no other transaction and no crash
run(b, t, calls) ==
    LET s == RunScope(FreshView(b), t, calls, 1, <<>>)
        e == ExecAll(s.v.base, s.v.st, s.v.jr.operations, 1)
        failed == s.err # "" \/ e.err # ""
        b1 == IF s.err # "" THEN s.v.base ELSE e.base
    IN  [base |-> IF failed THEN RemoveAll(restoreSnapshots(b1, s.v.sn, s.v.jr.snapshots, 1), s.v.tr) ELSE b1,
         reads |-> s.reads, committed |-> ~failed]

\* the two transactions one entirely after the other, from the initial base directory
Serial(first, second) ==
    LET r1 == run(initial, first, prog[first])
        r2 == run(r1.base, second, prog[second])
    IN  [base |-> r2.base, reads |-> (first :> r1.reads) @@ (second :> r2.reads),
         committed |-> r1.committed /\ r2.committed]

\* ---------------------------------------------------------------- claims
\* The transaction reached the PREPARED write
Prepared(t) == ci[t] > 0

\* C1: after a crash at any step and the recovery of the next initialize(), the base
\* directory is the one before the transaction began or the one a complete commit produces.
C1_CrashAllOrNothing ==
    phase = "recovered" =>
        \/ base = before[1]
        \/ Prepared(1) /\ after[1].ok /\ base = after[1].base

\* C2: once the PREPARED write has returned, a crash at any later point followed by
\* recovery leaves the base directory in the state the complete commit produces.
C2_PreparedRollsForward ==
    (phase = "recovered" /\ Prepared(1) /\ after[1].ok /\ ~execFailed[1]) => base = after[1].base

\* C3: a crash while the journal is still IN_PROGRESS leaves, after recovery, the base
\* directory exactly as it was before the transaction began.
C3_InProgressLeavesBase ==
    (phase = "recovered" /\ ~Prepared(1)) => base = before[1]

\* the files the journaled operations name or have below the directory they name
Touched(ops) ==
    FilePaths \cap UNION {Under(q) : q \in {x \in Paths : \E i \in 1..Len(ops) : x \in {ops[i].path, ops[i].from, ops[i].to}}}

SameOn(S, b1, b2) == \A p \in S : b1[p] = b2[p]

\* C4: without a crash, once run() has finished for a scope that returned, the files of the
\* journaled operations show all of the operations or none of them, also when a step of
\* commit-execute failed after earlier steps were applied.
C4_RunAllOrNothing ==
    (phase = "up" /\ pc[1] = "done" /\ ~scopeRaised[1]) =>
        LET T == Touched(journal[1].operations)
        IN  \/ SameOn(T, base, before[1])
            \/ Prepared(1) /\ after[1].ok /\ SameOn(T, base, after[1].base)

\* C5: when the scope raises, after rollback every path of the base directory is as it
\* was before the transaction began and no path exists that did not exist before.
C5_RollbackRestoresBase ==
    (phase = "up" /\ pc[1] = "done" /\ scopeRaised[1]) => base = before[1]

\* C6: run() rolls back exactly when the scope raises and commits exactly when it returns.
C6_CommitIffScopeReturns ==
    (phase = "up" /\ pc[1] = "done") => (rolledBack[1] <=> scopeRaised[1])

\* C7: when a step of commit-execute fails, no rollback is performed: the PREPARED journal
\* and the staging directory stay in place for the next recovery.
C7_NoRollbackAfterPrepared ==
    (phase = "up" /\ execFailed[1]) => (~rolledBack[1] /\ jfile[1].status = "PREPARED" /\ sd[1])

\* run() has finished for t and it committed
Committed(t) == pc[t] = "done" /\ ~rolledBack[t]

\* the outcome is the one of the serial execution first, second
SameAsSerial(first, second) ==
    LET s == Serial(first, second)
    IN  s.committed /\ s.base = base /\ s.reads[1] = reads[1] /\ s.reads[2] = reads[2]

\* C8: when two concurrent transactions have both committed, the base directory and what
\* each of them read are those of one of the two serial executions.
C8_SerialEquivalence ==
    (Committed(1) /\ Committed(2)) => (SameAsSerial(1, 2) \/ SameAsSerial(2, 1))

\* t called writeFile on p
Wrote(t, p) == \E i \in 1..Len(prog[t]) : prog[t][i].name = "write" /\ prog[t][i].p = p

\* t has staged p with writeFile and has neither committed nor rolled back
StagedWrite(t, p) == pc[t] \in {"scope", "prepare", "execute"} /\ Wrote(t, p)

\* C9: two transactions that both write the same path never have it staged at the same
\* time: the second stages it only after the first has committed or rolled back.
C9_WritersExcluded ==
    \A p \in ConcFiles : ~(StagedWrite(1, p) /\ StagedWrite(2, p))

\* C10: every value readFile returned is the transaction's own staged content, or content
\* that was in the base directory initially or that a commit applied.
C10_ReadCommitted ==
    \A t \in TxIds : \A i \in 1..Len(reads[t]) :
        reads[t][i].own \/ <<reads[t][i].path, reads[t][i].data>> \in legit

\* every transaction that began has finished
Quiet == \A t \in TxIds : pc[t] \in {"idle", "done"}

\* the transactions that committed an increment of a.txt
Incremented == {t \in TxIds : Committed(t) /\ Wrote(t, "a.txt")}

\* C11: when transactions concurrently read a.txt and write back what they read plus one,
\* the final value exceeds the initial one by the number of transactions that committed.
C11_NoLostUpdate ==
    Quiet => base["a.txt"].k = "file" /\ Len(base["a.txt"].c) = Len(initial["a.txt"].c) + Cardinality(Incremented)

C11_Witness == Quiet /\ Cardinality(Incremented) = 3 /\ base["a.txt"].c = "a111"

\* t has acquired the lock on res and its cleanup has not released it yet
Holds(t, res) ==
    res \in acquiredLocks[t] /\ pc[t] \in {"scope", "prepare", "execute", "rename_rm", "rollback", "cl_release"}

\* C12: no resource path is locked by two transactions at the same time, whether the locks
\* were asked for as shared (readFile) or as exclusive.
C12_LocksExclude ==
    \A res \in LockRes : \A t1 \in TxIds, t2 \in TxIds : (Holds(t1, res) /\ Holds(t2, res)) => t1 = t2

\* transaction 1 holds a.txt and the readFile of transaction 2 on it failed at the lock
C12_Witness ==
    /\ Holds(1, "a.txt") /\ pc[1] = "scope"
    /\ pc[2] = "rollback" /\ prog[2] = <<Call("read", "a.txt", "", "")>>
    /\ "a.txt" \notin acquiredLocks[2]

\* C13: a lock a transaction holds is given up only by the release step of its cleanup: it
\* stays held through the later operations, commit-execute and the restore of snapshots.
C13_ReleasedOnlyByCleanup ==
    [][\A t \in TxIds, res \in LockRes :
          (lockfile[res] = t /\ lockfile'[res] # t) => (pc[t] = "cl_release" /\ pc'[t] = "cl_staging")]_vars

\* a rollback that restored a snapshot has reached cleanup with every lock it acquired still held
C13_Witness ==
    /\ pc[1] = "cl_release" /\ rolledBack[1] /\ Len(journal[1].snapshots) > 0
    /\ Cardinality(acquiredLocks[1]) >= 2
    /\ \A res \in acquiredLocks[1] : lockfile[res] = 1

Locking(t) == pc[t] = "locking"

\* C14: every lock acquisition ends: the lock is acquired, or after Retries waits of RetryInterval
\* the call fails inside the scope with an error naming the resource path and the timeout; two
\* transactions that wait for each other's locks both leave the wait
C14_AcquisitionTerminates ==
    /\ \A t \in LockTxs : Locking(t) ~> ~Locking(t)
    /\ [](\A t \in LockTxs :
            raised[t] # "" =>
                /\ raised[t] = "Failed to acquire lock on \"" \o acquiring[t].res \o "\" within "
                                   \o ToString(LockTimeout) \o "ms."
                /\ acquiring[t].tries = Retries
                /\ scopeRaised[t]
                /\ acquiring[t].res \notin acquiredLocks[t])

\* each of the two waits for the lock the other holds
C14_Witness ==
    /\ Locking(1) /\ Locking(2)
    /\ acquiring[1].res = "b.txt" /\ lockfile["b.txt"] = 2
    /\ acquiring[2].res = "a.txt" /\ lockfile["a.txt"] = 1
    /\ acquiring[1].tries = Retries /\ acquiring[2].tries = Retries


Ended(t) == pc[t] = "done"

C16_RollbackNeverFailsCaller ==
    \A t \in TxIds : (Ended(t) /\ rolledBack[t] /\ scopeRaised[t]) => thrown[t] = raised[t]


\* C17: for a PREPARED journal none of whose entries has been applied, recovery's roll-forward
\* leaves the base directory a complete commit-execute of the same journal and staging tree
\* leaves, and then the journal and the staging directory are gone
C17_RollForwardAsCommit ==
    [][\A t \in TxIds :
          (phase = "recovering" /\ t \in todo /\ t \notin todo' /\ jfile[t].status = "PREPARED" /\ ci[t] = 1) =>
              LET c == ExecAll(base, staging[t], jfile[t].operations, 1)
              IN  c.err = "" => (base' = c.base /\ jfile'[t] = NoFile /\ ~sd'[t])]_vars


\* C18: when recovery visits a journal whose status is IN_PROGRESS, COMMITTED or ROLLED_BACK, the
\* journal and the staging directory of that transaction are deleted and the base directory is
\* left as it is
C18_DiscardLeavesBase ==
    [][\A t \in TxIds :
          (/\ phase = "recovering" /\ t \in todo /\ t \notin todo'
           /\ jfile[t].status \in {"IN_PROGRESS", "COMMITTED", "ROLLED_BACK"}) =>
              /\ base' = base
              /\ jfile'[t] = NoFile
              /\ ~sd'[t] /\ staging'[t] = EmptyTree /\ snaps'[t] = EmptyTree]_vars

\* recovery is over for a transaction that died in its scope, before PREPARED, with a staged
\* file and a placeholder in the base directory
C18_Witness ==
    /\ phase = "recovered" /\ pc[1] = "dead"
    /\ ci[1] = 0 /\ nops[1] >= 2
    /\ jfile[1] = NoFile /\ ~sd[1]
    /\ base # initial


\* C19: when recovery visits a journal file that cannot be read or parsed, it removes that
\* file and the staging directory of the same id, and goes on with the remaining ids
C19_CorruptJournalRemoved ==
    [][\A t \in TxIds :
          (phase = "recovering" /\ t \in todo /\ t \notin todo' /\ jfile[t].status = "CORRUPT") =>
              /\ jfile'[t] = NoFile
              /\ ~sd'[t] /\ staging'[t] = EmptyTree
              /\ todo' = todo \ {t}]_vars

\* C20: initialize() ends without an exception, and a failure while one id is recovered does
\* not keep recovery from visiting the other ids: a step of recover() ends the visit of one id
C20_RecoveryVisitsAll ==
    [][phase = "recovering" => (phase' \in {"recovering", "recovered"} /\ Cardinality(todo \ todo') <= 1)]_vars


\* the caller paths that are absolute or resolve outside the base directory, as the caller wrote them
OutsideBase ==
    {"../a.txt", "d/../../a.txt", "../../home/other/a.txt", "/home/base/a.txt", "//srv/a.txt", "C:/a.txt"}

LastCall(t) == prog[t][Len(prog[t])]

\* C21: a handle operation called with a path that is absolute or resolves outside the base
\* directory fails with the outside-of-base-directory error, and has then acquired no lock and
\* changed neither staging, journal nor base directory
C21_PathGuard ==
    [][\A t \in TxIds :
          (/\ Len(prog'[t]) = Len(prog[t]) + 1
           /\ prog'[t][Len(prog'[t])].p \in OutsideBase \/ prog'[t][Len(prog'[t])].q \in OutsideBase) =>
              /\ raised'[t] = "Path \"" \o (IF prog'[t][Len(prog'[t])].p \in OutsideBase
                                           THEN prog'[t][Len(prog'[t])].p ELSE prog'[t][Len(prog'[t])].q)
                                  \o "\" is outside of the transaction's base directory."
              /\ pc'[t] = "rollback"
              /\ UNCHANGED <<base, lockfile, txvars>>]_vars

\* a rename whose source leaves the base directory through "..", after a write that took a lock
C21_Witness ==
    /\ pc[1] = "rollback" /\ Len(prog[1]) = 2
    /\ prog[1][1].name = "write"
    /\ LastCall(1).name = "rename" /\ LastCall(1).p = "d/../../a.txt"
    /\ acquiredLocks[1] # {}


\* C22: commit-execute applies the journal entries in the order they were recorded, and a
\* transaction that writes p, renames q onto p and writes p again commits, p holding what the
\* last write wrote
C22_WriteRenameWrite ==
    \A t \in TxIds : \A p \in FilePaths, q \in FilePaths :
        (/\ Ended(t) /\ Len(prog[t]) = 3
         /\ prog[t][1].name = "write" /\ prog[t][1].p = p
         /\ prog[t][2] = Call("rename", q, p, "")
         /\ prog[t][3].name = "write" /\ prog[t][3].p = p) =>
            (~rolledBack[t] /\ base[p] = File(prog[t][3].x))


\* what exists(p) is specified to return: the journal rules in priority order, then staging, then base
ExistsByPriority(v, p) ==
    LET ops == v.jr.operations
        rule(i) == IF ops[i].op = "RM" /\ ops[i].path = p THEN 1
                   ELSE IF ops[i].op = "RENAME" /\ ops[i].from = p THEN 2
                   ELSE IF ops[i].op = "RENAME" /\ ops[i].to = p THEN 3
                   ELSE IF ops[i].op \in {"WRITE", "MKDIR"} /\ ops[i].path = p THEN 4
                   ELSE IF ops[i].op = "CP" /\ ops[i].to = p THEN 4
                   ELSE 5
        rules == {rule(i) : i \in 1..Len(ops)} \cup {5}
        first == CHOOSE r \in rules : \A r2 \in rules : r <= r2
    IN  CASE first \in {1, 2} -> FALSE
          [] first \in {3, 4} -> TRUE
          [] OTHER -> Exists(v.st, p) \/ Exists(v.base, p)

\* C23: at any point of a scope exists(p) returns false for RM{p}, else false for RENAME from p,
\* else true for RENAME to p, else true for WRITE{p}, CP to p or MKDIR{p}, else whether p is in
\* staging or base; it takes no lock and leaves journal, staging and base as they were
C23_ExistsPriority ==
    \A t \in TxIds : \A p \in Paths :
        pc[t] = "scope" =>
            exists(View(t), t, p) = Ret(View(t), IF ExistsByPriority(View(t), p) THEN "true" ELSE "false")

\* exists("d") called after mkdir("d") journalled MKDIR{d}, d being absent from the base directory
C23_Witness ==
    /\ pc[1] = "scope" /\ Len(prog[1]) = 2
    /\ prog[1][1].name = "mkdir"
    /\ LastCall(1).name = "exists" /\ LastCall(1).p = "d"
    /\ Has(journal[1].operations, MkdirRec("d"))
    /\ ~Exists(base, "d")


\* the step is transaction t calling read(p) directly after its write(p, x)
ReadsOwnWrite(t, p, x) ==
    /\ Len(prog[t]) >= 1
    /\ LastCall(t) = Call("write", p, "", x)
    /\ prog'[t] = Append(prog[t], Call("read", p, "", ""))

ViewBefore(t) == RunScope(FreshView(before[t]), t, SubSeq(prog[t], 1, Len(prog[t]) - 1), 1, <<>>).v

\* what a path holds for the transaction: its staged form if there is one, else its base form
Held(v, p) == IF Exists(v.st, p) THEN v.st[p] ELSE v.base[p]

\* C25: a transaction whose last call is rename(old, new) and which commits leaves new with the
\* content old had at the call (staged form first) and no old; when old does not exist for the
\* transaction the call fails with the source-missing error and the journal gains no entry
C25_Rename ==
    \A t \in TxIds : \A old \in FilePaths, new \in FilePaths :
        (Len(prog[t]) >= 1 /\ LastCall(t) = Call("rename", old, new, "")) =>
            LET w == ViewBefore(t)
            IN  /\ (Ended(t) /\ ~rolledBack[t]) =>
                       /\ TxExists(w, old)
                       /\ base[new] = Held(w, old)
                       /\ ~Exists(base, old)
                /\ (pc[t] = "rollback" /\ ~TxExists(w, old)) =>
                       /\ raised[t] = "SOURCE_MISSING"
                       /\ journal[t].operations = w.jr.operations

\* a committed rename of a file the transaction had itself written before
C25_Witness ==
    /\ Ended(1) /\ ~rolledBack[1]
    /\ prog[1] = <<Call("write", "a.txt", "", "x"), Call("rename", "a.txt", "d/c.txt", "")>>
    /\ base["d/c.txt"] = File("x") /\ ~Exists(base, "a.txt")
    /\ Exists(initial, "a.txt")


\* the calls of the transaction before its last one
CallsBefore(t) == SubSeq(prog[t], 1, Len(prog[t]) - 1)

\* C26: a transaction whose last call is cp(src, dst) and which commits leaves dst with the
\* content src had at the call (staged form first) and src as the same transaction leaves it
\* without the copy; when src does not exist for the transaction the call fails with the
\* source-missing error and the journal gains no entry
C26_Copy ==
    \A t \in TxIds : \A src \in FilePaths, dst \in FilePaths :
        (Len(prog[t]) >= 1 /\ LastCall(t) = Call("cp", src, dst, "")) =>
            LET w == ViewBefore(t)
                without == run(before[t], t, CallsBefore(t))
            IN  /\ (Ended(t) /\ ~rolledBack[t]) =>
                       /\ TxExists(w, src)
                       /\ base[dst] = Held(w, src)
                       /\ without.committed
                       /\ base[src] = without.base[src]
                /\ (pc[t] = "rollback" /\ ~TxExists(w, src)) =>
                       /\ raised[t] = "SOURCE_MISSING"
                       /\ journal[t].operations = w.jr.operations

\* a committed copy of a file the transaction had appended to, onto a file that existed
C26_Witness ==
    /\ Ended(1) /\ ~rolledBack[1]
    /\ prog[1] = <<Call("append", "a.txt", "", "x"), Call("cp", "a.txt", "d/c.txt", "")>>
    /\ initial["a.txt"] = File("a") /\ initial["d/c.txt"] = File("c")
    /\ base["d/c.txt"] = File("ax") /\ base["a.txt"] = File("ax")


\* the content append starts from: the staged file, else the base file, else nothing
Current(v, p) == IF Exists(v.st, p) \/ Exists(v.base, p) THEN Held(v, p).c ELSE ""

\* C27: append(p, y) stages p's current content (staged, else base, else empty) followed by y
\* and journals WRITE{p} once, and a transaction whose last call it is and which commits leaves
\* p with that concatenation; so successive appends accumulate in call order
C27_Append ==
    \A t \in TxIds : \A p \in FilePaths, y \in OrderData :
        (Len(prog[t]) >= 1 /\ LastCall(t) = Call("append", p, "", y)) =>
            LET w == ViewBefore(t)
                cat == Current(w, p) \o y
            IN  /\ pc[t] = "scope" =>
                       /\ staging[t][p] = File(cat)
                       /\ Has(journal[t].operations, WriteRec(p))
                       /\ Len(journal[t].operations) =
                              Len(w.jr.operations) + (IF Has(w.jr.operations, WriteRec(p)) THEN 0 ELSE 1)
                /\ (Ended(t) /\ ~rolledBack[t]) => base[p] = File(cat)


\* C28: a transaction that calls mkdir(p) twice sees both calls succeed, and after the second
\* the journal holds exactly one MKDIR{p} entry
C28_MkdirTwice ==
    \A t \in TxIds : \A p \in DirPaths :
        prog[t] = <<Call("mkdir", p, "", ""), Call("mkdir", p, "", "")>> =>
            /\ ~scopeRaised[t]
            /\ pc[t] = "scope" =>
                   Cardinality({i \in 1..Len(journal[t].operations) : journal[t].operations[i] = MkdirRec(p)}) = 1


\* C29: read(p) fails with the not-found error when p is neither staged nor in the base
\* directory at the call; otherwise it returns the staged content, else the base content
C29_ReadMissing ==
    [][\A t \in TxIds : \A p \in FilePaths :
          prog'[t] = Append(prog[t], Call("read", p, "", "")) =>
              IF ~Exists(staging[t], p) /\ ~Exists(base, p)
              THEN /\ raised'[t] = "ENOENT"
                   /\ pc'[t] = "rollback"
                   /\ reads'[t] = reads[t]
              ELSE /\ Len(reads'[t]) = Len(reads[t]) + 1
                   /\ reads'[t][Len(reads'[t])].data = Held(View(t), p).c
                   /\ pc'[t] = "scope"]_vars


\* C30: a read(p), which asks for a shared lock, is not blocked when the lock of p is held by
\* another transaction that took it for reads only
C30_SharedCompatible ==
    [][\A t \in TxIds, u \in TxIds : \A p \in FilePaths :
          (/\ t # u
           /\ prog'[t] = Append(prog[t], Call("read", p, "", ""))
           /\ lockfile[p] = u
           /\ \A i \in 1..Len(prog[u]) : prog[u][i] = Call("read", p, "", "")) =>
              /\ raised'[t] = ""
              /\ pc'[t] = "scope"]_vars


\* C31: after a clean execute the journal is written COMMITTED and deleted, then the staging
\* directory is removed, then the locks are released: while the journal file says PREPARED no
\* lock of the transaction is released and its staging directory is not removed
C31_CleanupOrder ==
    [][\A t \in TxIds :
          (jfile[t].status = "PREPARED" /\ ~execFailed[t] /\ ~rolledBack[t] /\ pc[t] # "rollback") =>
              /\ \A r \in LockRes : lockfile[r] = t => lockfile'[r] = t
              /\ sd[t] => sd'[t]
              /\ staging'[t] = staging[t] \/ pc[t] \in {"execute", "rename_rm"}]_vars


\* the locks an operation takes: rename the two parents, cp the source and the destination's
\* parent, snapshotDir the directory
LocksOf(c) ==
    CASE c.name = "rename" -> {Parent(c.p), Parent(c.q)}
      [] c.name = "cp" -> {c.p, Parent(c.q)}
      [] c.name = "snapshotDir" -> {c.p}
      [] OTHER -> {}

\* C32: an operation evaluates its existence precondition only once it holds all its locks, so
\* a rename, cp or snapshotDir that fails its precondition holds its locks when it fails
C32_LocksBeforePreconditions ==
    [][\A t \in TxIds :
          (/\ Len(prog'[t]) = Len(prog[t]) + 1
           /\ raised'[t] \in {"SOURCE_MISSING", "DIR_MISSING"}) =>
              LocksOf(prog'[t][Len(prog'[t])]) \subseteq acquiredLocks'[t]]_vars


\* the place of a lock path in ascending order of the absolute paths: the base directory is a
\* prefix of every other path, and "d" of "d/c.txt"
PathRank(r) ==
    CASE r = ROOT -> 0 [] r = "a.txt" -> 1 [] r = "b.txt" -> 2 [] r = "d" -> 3 [] r = "d/c.txt" -> 4

\* C33: an operation that needs two locks asks for them in ascending path order, so when a
\* rename or cp fails on one of its locks it already holds every lock of its that sorts before
C33_SortedLockOrder ==
    [][\A t \in TxIds : \A r \in LockRes :
          (/\ Len(prog'[t]) = Len(prog[t]) + 1
           /\ prog'[t][Len(prog'[t])].name \in {"rename", "cp"}
           /\ r \in LocksOf(prog'[t][Len(prog'[t])])
           /\ raised'[t] = LockError(r)) =>
              \A r2 \in LocksOf(prog'[t][Len(prog'[t])]) :
                  PathRank(r2) < PathRank(r) => r2 \in acquiredLocks'[t]]_vars


\* C34: outside commit-execute the base directory holds the committed state only: no handle
\* operation, lock acquisition included, creates, changes or removes anything in it
C34_ScopeLeavesBase ==
    [][\A t \in TxIds : Len(prog'[t]) = Len(prog[t]) + 1 => base' = base]_vars


\* transaction t is between begin and the end of run()
Live(t) == pc[t] \notin {"idle", "done", "dead"}

\* C35: while a transaction is live with an IN_PROGRESS or PREPARED journal, its staging
\* subtree and its journal are changed or deleted by its own steps only, not by another
\* transaction and not by the recovery of another manager instance
C35_OwnStagingOnly ==
    [][\A t \in TxIds :
          (/\ Live(t) /\ jfile[t].status \in {"IN_PROGRESS", "PREPARED"}
           /\ pc'[t] = pc[t] /\ nops'[t] = nops[t] /\ ci'[t] = ci[t]) =>
              /\ sd'[t] = sd[t] /\ staging'[t] = staging[t] /\ snaps'[t] = snaps[t]
              /\ jfile'[t] = jfile[t]]_vars


\* the journal j2 continues the journal j1: same entries in the same places, possibly more at
\* the end, none added once PREPARED, and a status that did not move backwards
StatusRank(st) == CASE st = "IN_PROGRESS" -> 1 [] st = "PREPARED" -> 2 [] st = "COMMITTED" -> 3 [] OTHER -> 0

Continues(j1, j2) ==
    /\ Len(j2.operations) >= Len(j1.operations)
    /\ SubSeq(j2.operations, 1, Len(j1.operations)) = j1.operations
    /\ StatusRank(j2.status) >= StatusRank(j1.status)
    /\ StatusRank(j1.status) >= 2 => j2.operations = j1.operations

\* C36: while a transaction is live its journal, in memory and on disk, only grows at the end,
\* its status only moves from IN_PROGRESS to PREPARED to COMMITTED, and nothing is appended
\* once it is PREPARED
C36_JournalAppendOnly ==
    [][\A t \in TxIds :
          (Live(t) /\ pc'[t] \notin {"idle", "done", "dead"}) =>
              /\ Continues(journal[t], journal'[t])
              /\ Continues(jfile[t], jfile'[t])]_vars

\* a journal of two entries that went through PREPARED and is now written as COMMITTED
C36_Witness ==
    /\ pc[1] = "cl_delete" /\ ~rolledBack[1]
    /\ jfile[1].status = "COMMITTED"
    /\ Len(jfile[1].operations) >= 2


\* p holds what transaction u wrote and committed after transaction t began
CommittedBy(u, t, p) ==
    /\ Committed(u) /\ Wrote(u, p)
    /\ \E i \in 1..Len(prog[u]) : prog[u][i].name = "write" /\ prog[u][i].p = p /\ base[p] = File(prog[u][i].x)
    /\ base[p] # before[t][p]

\* C37: the rollback of a transaction, snapshot restore and removal of temporary resources,
\* leaves alone every base path that holds what another transaction committed meanwhile
C37_RollbackSparesOthers ==
    [][\A t \in TxIds, u \in TxIds : \A p \in Paths :
          (t # u /\ pc[t] = "rollback" /\ pc'[t] = "cl_release" /\ CommittedBy(u, t, p)) =>
              base'[p] = base[p]]_vars


\* what one handle call does to a directory tree when it is applied to the tree directly
CallEffect(b, c) ==
    CASE c.name = "write"  -> [b EXCEPT ![c.p] = File(c.x)]
      [] c.name = "append" -> [b EXCEPT ![c.p] = File((IF b[c.p].k = "file" THEN b[c.p].c ELSE "") \o c.x)]
      [] c.name = "rm"     -> RmRf(b, c.p)
      [] c.name = "rename" -> IF c.p = c.q THEN b ELSE [RmRf(b, c.p) EXCEPT ![c.q] = b[c.p]]
      [] c.name = "cp"     -> [b EXCEPT ![c.q] = b[c.p]]
      [] OTHER             -> b

\* the calls applied one after the other, in the order the caller made them
RECURSIVE InOrder(_, _, _)
InOrder(b, calls, i) == IF i > Len(calls) THEN b ELSE InOrder(CallEffect(b, calls[i]), calls, i + 1)

\* C38: after a successful commit every file of the base directory exists, and holds the
\* content, exactly as the transaction's write, append, rm, rename and cp calls applied in
\* call order to the pre-transaction base directory leave it
C38_CommitEqualsCallOrder ==
    \A t \in TxIds :
        (Ended(t) /\ ~rolledBack[t]) =>
            \A p \in FilePaths : base[p] = InOrder(before[t], prog[t], 1)[p]


\* the base directory a commit at this point, with no further call, produces
CommitNow(t) == ExecAll(base, staging[t], journal[t].operations, 1)

\* C39: at any point inside a transaction exists(p) is whether p exists in the base
\* directory the commit of the transaction at that point, with no further operation, leaves
C39_ExistsIsCommitResult ==
    \A t \in TxIds : \A p \in Paths :
        (pc[t] = "scope" /\ CommitNow(t).err = "") =>
            (TxExists(View(t), p) <=> Exists(CommitNow(t).base, p))


\* the paths the journaled operations name, what lies below them, and the directories above them
Targets(ops) ==
    LET named == {x \in Paths : \E i \in 1..Len(ops) : x \in {ops[i].path, ops[i].from, ops[i].to}}
    IN  UNION {Under(q) \cup UpTo(q) : q \in named}

\* C40: a committed transaction leaves every path of the base directory that is neither a
\* target of its journaled operations nor a directory above one exactly as it was before
\* the transaction began: not created, not modified, not deleted
C40_CommitFrame ==
    \A t \in TxIds :
        (phase = "up" /\ Ended(t) /\ ~rolledBack[t]) =>
            \A p \in Paths \ Targets(journal[t].operations) : base[p] = before[t][p]

====
